---- MODULE Spec2Model ----
(***************************************************************************)
(* The Huffman coding engine of src/ibragimov.imil/F0/huffmanAlgorithm.cpp *)
(* as a state machine: a client calls createEncodingTable(text), then      *)
(* encode(msg, table), then decode(bits, table).                           *)
(*                                                                         *)
(* A char is its character code (a std::string is a sequence of them), a   *)
(* std::unique_ptr< Node > is <<>> (null) or <<node>>, a std::multimap is  *)
(* the sequence of its pairs in iteration order, a std::map is a function  *)
(* iterated in ascending key order.  String positions are 0-based as in    *)
(* the source.                                                             *)
(***************************************************************************)
EXTENDS Integers, Sequences, FiniteSets, TLC

\* Longest text handed to createEncodingTable.
MaxLen == 5
\* Longest message, other than the text itself, handed to encode.
MaxMsg == 1
\* Most trailing characters cut from the encoded text before decode.
MaxCut == 1
\* Capacity of a std::string (max_size): a longer string throws length_error.
MaxSize == 16
\* Longest codeword of the competing prefix-free codes.
MaxCodeLen == 3

\* '0' and '1'.
Zero == 48
One == 49
\* The input alphabet: '0', '1', 'a', 'b'.
Chars == {Zero, One, 97, 98}
\* std::string::npos: no position.
npos == -1

Strings(n) == UNION {[1..k -> Chars] : k \in 0..n}

Max(S) == CHOOSE x \in S : \A y \in S : y <= x
Min(S) == CHOOSE x \in S : \A y \in S : x <= y

\* std::string(n, '0') and std::fill_n(back_inserter, n, '0').
Zeros(n) == [i \in 1..n |-> Zero]

InsertAt(s, i, x) == SubSeq(s, 1, i - 1) \o <<x>> \o SubSeq(s, i, Len(s))
RemoveAt(s, i) == SubSeq(s, 1, i - 1) \o SubSeq(s, i + 1, Len(s))

\* std::multimap::insert: the pair goes after every pair whose key is not
\* greater (the upper bound), so equal keys keep their insertion order.
MultimapInsert(m, p) ==
  LET greater == {i \in 1..Len(m) : m[i][1] > p[1]}
  IN InsertAt(m, IF greater = {} THEN Len(m) + 1 ELSE Min(greater), p)

\* std::sort on a string.
RECURSIVE SortString(_)
SortString(s) ==
  IF s = <<>> THEN <<>>
  ELSE LET rest == SortString(Tail(s))
           bigger == {i \in 1..Len(rest) : rest[i] > Head(s)}
       IN InsertAt(rest, IF bigger = {} THEN Len(rest) + 1 ELSE Min(bigger), Head(s))

\* std::unique_copy on a sorted string.
RECURSIVE UniqueCopy(_)
UniqueCopy(s) ==
  IF Len(s) <= 1 THEN s
  ELSE IF s[1] = s[2] THEN UniqueCopy(Tail(s))
  ELSE <<s[1]>> \o UniqueCopy(Tail(s))

\* std::count.
Count(s, c) == Cardinality({i \in 1..Len(s) : s[i] = c})

RECURSIVE FrequencyLoop(_, _, _)
FrequencyLoop(alphabet, copiedText, frequencyTable) ==
  IF alphabet = <<>> THEN frequencyTable
  ELSE FrequencyLoop(Tail(alphabet), copiedText,
         MultimapInsert(frequencyTable, <<Count(copiedText, Head(alphabet)), Head(alphabet)>>))

createFrequencyTable(t) ==
  LET copiedText == SortString(t)
      alphabet == UniqueCopy(copiedText)
  IN FrequencyLoop(alphabet, copiedText, <<>>)

\* A leaf Node(char, weight): pair = (char, weight), no children.
Leaf(p) == [pair |-> <<p[2], p[1]>>, left |-> <<>>, right |-> <<>>]

\* The list of leaves createHuffmanTree starts from.
Leaves(frequencyTable) == [i \in 1..Len(frequencyTable) |-> Leaf(frequencyTable[i])]

isMaxWeight(lhs, rhs) == lhs.pair[2] >= rhs.pair[2]

isMinWeight(lhs, rhs) == lhs.pair[2] <= rhs.pair[2]

\* std::min_element with isMinWeight: the candidate is replaced whenever
\* comp(*first, *smallest) holds.  isMinWeight is not a strict ordering, and
\* the loop, which is the one every standard library runs, then ends on the
\* last of the elements of least weight.
RECURSIVE MinElement(_, _, _)
MinElement(list, first, smallest) ==
  IF first > Len(list) THEN smallest
  ELSE MinElement(list, first + 1,
         IF isMinWeight(list[first], list[smallest]) THEN first ELSE smallest)

\* extractMinimum: the node moved out of the list (null for an empty list)
\* and the list without it.  std::remove erases the one moved-from (null)
\* element and keeps the order of the others.
extractMinimum(list) ==
  IF list = <<>> THEN [minNode |-> <<>>, list |-> list]
  ELSE LET minIter == MinElement(list, 2, 1)
       IN [minNode |-> <<list[minIter]>>, list |-> RemoveAt(list, minIter)]

\* Node(' ', value, left, right); ' ' is character 32.
Internal(l, r) ==
  [pair |-> <<32, l[1].pair[2] + r[1].pair[2]>>, left |-> l, right |-> r]

\* The inner loop of createCodesLengthTable: one layer of the tree.
RECURSIVE LayerLoop(_, _, _, _)
LayerLoop(queue, numberOfNodes, height, lengthsTable) ==
  IF numberOfNodes = 0 THEN <<queue, lengthsTable>>
  ELSE LET current == Head(queue)
       IN LayerLoop(Tail(queue) \o current.left \o current.right,
                    numberOfNodes - 1, height,
                    IF current.left = <<>> /\ current.right = <<>>
                    THEN MultimapInsert(lengthsTable, <<height, current.pair[1]>>)
                    ELSE lengthsTable)

RECURSIVE QueueLoop(_, _, _)
QueueLoop(queue, height, lengthsTable) ==
  IF queue = <<>> THEN lengthsTable
  ELSE LET r == LayerLoop(queue, Len(queue), height, lengthsTable)
       IN QueueLoop(r[1], height + 1, r[2])

\* createCodesLengthTable on a non-null tree.
createCodesLengthTable(tree) == QueueLoop(tree, 0, <<>>)

flip(c) == IF c = Zero THEN One ELSE Zero

incrementNoCarry(code) ==
  [i \in 1..Len(code) |-> IF i = Len(code) THEN One ELSE code[i]]

\* increment: flip from the end up to and including the last '0' (all of
\* it when there is none).
increment(code) ==
  LET zeros == {i \in 1..Len(code) : code[i] = Zero}
      upTo == IF zeros = {} THEN 1 ELSE Max(zeros)
  IN [i \in 1..Len(code) |-> IF i >= upTo THEN flip(code[i]) ELSE code[i]]

\* encodingTable[key] = value.
MapPut(m, k, v) == [x \in DOMAIN m \cup {k} |-> IF x = k THEN v ELSE m[x]]

RECURSIVE AssignLoop(_, _, _, _)
AssignLoop(table, currentPair, code, encodingTable) ==
  IF currentPair > Len(table) THEN encodingTable
  ELSE LET next == increment(code) \o Zeros(table[currentPair][1] - table[currentPair - 1][1])
       IN AssignLoop(table, currentPair + 1, next,
                     MapPut(encodingTable, table[currentPair][2], next))

\* detail::createEncodingTable on a non-empty table of lengths.
createEncodingTable(table) ==
  LET code == Zeros(table[1][1])
  IN AssignLoop(table, 2, code, MapPut(<<>>, table[1][2], code))

\* The keys of a std::map in iteration order.
RECURSIVE Ascending(_)
Ascending(S) == IF S = {} THEN <<>> ELSE <<Min(S)>> \o Ascending(S \ {Min(S)})

\* std::string::find(toReplace, from): the first match at or after from.
find(str, toReplace, from) ==
  LET hits == {i \in from..(Len(str) - Len(toReplace)) :
                 SubSeq(str, i + 1, i + Len(toReplace)) = toReplace}
  IN IF hits = {} THEN npos ELSE Min(hits)

\* std::string::replace(at, n, replaceWith).
replace(str, at, n, replaceWith) ==
  SubSeq(str, 1, at) \o replaceWith \o SubSeq(str, at + n + 1, Len(str))

\* decode, lines 49-53: the table inverted pair by pair in key order.
RECURSIVE CopyLoop(_, _, _)
CopyLoop(keys, table, copiedEncodings) ==
  IF keys = <<>> THEN copiedEncodings
  ELSE CopyLoop(Tail(keys), table, MapPut(copiedEncodings, table[Head(keys)], Head(keys)))

\* decode, lines 56-64: the decoded text and the accumulator after the last bit.
RECURSIVE DecodeLoop(_, _, _, _)
DecodeLoop(input, copiedEncodings, decoded, acc) ==
  IF input = <<>> THEN <<decoded, acc>>
  ELSE LET pushed == Append(acc, Head(input))
       IN IF pushed \in DOMAIN copiedEncodings
          THEN DecodeLoop(Tail(input), copiedEncodings,
                          Append(decoded, copiedEncodings[pushed]), <<>>)
          ELSE DecodeLoop(Tail(input), copiedEncodings, decoded, pushed)

decode(input, table) ==
  DecodeLoop(input, CopyLoop(Ascending(DOMAIN table), table, <<>>), <<>>, <<>>)

VARIABLES
  pc,              \* where the client is
  text,            \* the argument of createEncodingTable
  frequencyTable,  \* createFrequencyTable's result
  weights,         \* createHuffmanTree's working list
  left,            \* createHuffmanTree's left (null outside an iteration)
  huffmanTree,     \* createHuffmanTree's result
  lengthsTable,    \* createCodesLengthTable's result
  encodings,       \* the encoding table
  msg,             \* the text argument of encode
  encodedText,     \* encode's working string and result
  it,              \* encode's position in the table (1 is the first pair)
  pos,             \* replaceSubstring's pos
  bits,            \* the text argument of decode
  decodedText,     \* decode's result
  code,            \* decode's accumulator when it returns
  error            \* the exception or signal that ended the run

build == <<text, frequencyTable, weights, left, huffmanTree, lengthsTable, encodings>>
coding == <<msg, encodedText, it, pos, bits, decodedText, code>>
vars == <<pc, build, coding, error>>

Init ==
  /\ pc = "start"
  /\ text \in Strings(MaxLen)
  /\ frequencyTable = <<>>
  /\ weights = <<>>
  /\ left = <<>>
  /\ huffmanTree = <<>>
  /\ lengthsTable = <<>>
  /\ encodings = <<>>
  /\ msg = <<>>
  /\ encodedText = <<>>
  /\ it = 1
  /\ pos = npos
  /\ bits = <<>>
  /\ decodedText = <<>>
  /\ code = <<>>
  /\ error = "none"

FrequencyTable ==
  /\ pc = "start"
  /\ frequencyTable' = createFrequencyTable(text)
  /\ pc' = "leaves"
  /\ UNCHANGED <<text, weights, left, huffmanTree, lengthsTable, encodings, coding, error>>

\* createHuffmanTree, lines 84-88.
TreeLeaves ==
  /\ pc = "leaves"
  /\ weights' = Leaves(frequencyTable)
  /\ pc' = "loop"
  /\ UNCHANGED <<text, frequencyTable, left, huffmanTree, lengthsTable, encodings, coding, error>>

\* createHuffmanTree, line 91.
ExtractLeft ==
  /\ pc = "loop"
  /\ Len(weights) > 1
  /\ LET r == extractMinimum(weights)
     IN /\ left' = r.minNode
        /\ weights' = r.list
  /\ pc' = "right"
  /\ UNCHANGED <<text, frequencyTable, huffmanTree, lengthsTable, encodings, coding, error>>

\* createHuffmanTree, lines 92-95.
ExtractRight ==
  /\ pc = "right"
  /\ LET r == extractMinimum(weights)
     IN weights' = Append(r.list, Internal(left, r.minNode))
  /\ left' = <<>>
  /\ pc' = "loop"
  /\ UNCHANGED <<text, frequencyTable, huffmanTree, lengthsTable, encodings, coding, error>>

\* createHuffmanTree, line 97, on a list of one node.
TreeReturn ==
  /\ pc = "loop"
  /\ Len(weights) = 1
  /\ huffmanTree' = <<weights[Len(weights)]>>
  /\ weights' = <<>>
  /\ pc' = "tree"
  /\ UNCHANGED <<text, frequencyTable, left, lengthsTable, encodings, coding, error>>

\* createHuffmanTree, line 97, on an empty list: back() of an empty list is
\* undefined.  The read faults, or it yields a null pointer.
TreeReturnEmpty ==
  /\ pc = "loop"
  /\ weights = <<>>
  /\ \/ /\ pc' = "crashed"
        /\ error' = "segfault"
     \/ /\ pc' = "tree"
        /\ error' = error
  /\ UNCHANGED <<build, coding>>

CodesLengthTable ==
  /\ pc = "tree"
  /\ huffmanTree # <<>>
  /\ lengthsTable' = createCodesLengthTable(huffmanTree)
  /\ pc' = "lengths"
  /\ UNCHANGED <<text, frequencyTable, weights, left, huffmanTree, encodings, coding, error>>

\* createCodesLengthTable, line 112, on a null tree: current is null.
CodesLengthTableNull ==
  /\ pc = "tree"
  /\ huffmanTree = <<>>
  /\ pc' = "crashed"
  /\ error' = "segfault"
  /\ UNCHANGED <<build, coding>>

EncodingTable ==
  /\ pc = "lengths"
  /\ encodings' = createEncodingTable(lengthsTable)
  /\ pc' = "table"
  /\ UNCHANGED <<text, frequencyTable, weights, left, huffmanTree, lengthsTable, coding, error>>

TableNext ==
  \/ FrequencyTable
  \/ TreeLeaves
  \/ ExtractLeft
  \/ ExtractRight
  \/ TreeReturn
  \/ TreeReturnEmpty
  \/ CodesLengthTable
  \/ CodesLengthTableNull
  \/ EncodingTable

TableSpec == Init /\ [][TableNext]_vars

\* encode, line 40.
Encode ==
  /\ pc = "table"
  /\ \E m \in {text} \cup Strings(MaxMsg) :
       /\ msg' = m
       /\ encodedText' = m
  /\ it' = 1
  /\ pc' = "replaceSubstring"
  /\ UNCHANGED <<build, pos, bits, decodedText, code, error>>

toReplace == <<Ascending(DOMAIN encodings)[it]>>
replaceWith == encodings[Ascending(DOMAIN encodings)[it]]

\* replaceSubstring, lines 174-177.
ReplaceThrow ==
  /\ pc = "replaceSubstring"
  /\ toReplace = <<>> \/ encodedText = <<>> \/ replaceWith = <<>>
  /\ pc' = "failed"
  /\ error' = "invalid_argument"
  /\ UNCHANGED <<build, coding>>

\* replaceSubstring, line 178.
ReplaceFind ==
  /\ pc = "replaceSubstring"
  /\ ~(toReplace = <<>> \/ encodedText = <<>> \/ replaceWith = <<>>)
  /\ pos' = find(encodedText, toReplace, 0)
  /\ pc' = "while"
  /\ UNCHANGED <<build, msg, encodedText, it, bits, decodedText, code, error>>

\* replaceSubstring, lines 179-183: one iteration.  The search resumes at
\* pos, inside the replacement: when that finds the character just written
\* at pos itself (a codeword equal to its one-character symbol), the step
\* leaves the state as it was and the loop repeats it for ever.
ReplaceStep ==
  /\ pc = "while"
  /\ pos # npos
  /\ LET str == replace(encodedText, pos, Len(toReplace), replaceWith)
     IN /\ Len(str) <= MaxSize
        /\ encodedText' = str
        /\ pos' = find(str, toReplace, pos)
  /\ UNCHANGED <<pc, build, msg, it, bits, decodedText, code, error>>

\* replaceSubstring, line 181, when the result would exceed the capacity.
ReplaceOverflow ==
  /\ pc = "while"
  /\ pos # npos
  /\ Len(replace(encodedText, pos, Len(toReplace), replaceWith)) > MaxSize
  /\ pc' = "failed"
  /\ error' = "length_error"
  /\ UNCHANGED <<build, coding>>

\* replaceSubstring returns; encode, line 41: the next pair, or line 45.
ReplaceReturn ==
  /\ pc = "while"
  /\ pos = npos
  /\ it' = it + 1
  /\ pc' = IF it + 1 > Cardinality(DOMAIN encodings) THEN "encoded" ELSE "replaceSubstring"
  /\ UNCHANGED <<build, msg, encodedText, pos, bits, decodedText, code, error>>

\* decode on the encoded text less its last cut characters.
Decode ==
  /\ pc = "encoded"
  /\ \E cut \in 0..MaxCut :
       /\ cut <= Len(encodedText)
       /\ bits' = SubSeq(encodedText, 1, Len(encodedText) - cut)
  /\ LET r == decode(bits', encodings)
     IN /\ decodedText' = r[1]
        /\ code' = r[2]
  /\ pc' = "decoded"
  /\ UNCHANGED <<build, msg, encodedText, it, pos, error>>

Next ==
  \/ TableNext
  \/ Encode
  \/ ReplaceThrow
  \/ ReplaceFind
  \/ ReplaceStep
  \/ ReplaceOverflow
  \/ ReplaceReturn
  \/ Decode

Spec == Init /\ [][Next]_vars

\* encode runs on one thread, which keeps taking the next step of the call
\* until the call returns or throws.
FairSpec ==
  /\ Spec
  /\ WF_vars(ReplaceThrow)
  /\ WF_vars(ReplaceFind)
  /\ WF_vars(ReplaceStep)
  /\ WF_vars(ReplaceOverflow)
  /\ WF_vars(ReplaceReturn)

(***************************************************************************)
(* The claims.                                                             *)
(***************************************************************************)

\* The distinct symbols of a string.
Symbols(s) == {s[i] : i \in 1..Len(s)}

IsPrefix(u, v) == Len(u) <= Len(v) /\ SubSeq(v, 1, Len(u)) = u

\* A codeword read as a binary number, most significant bit first.
RECURSIVE Value(_)
Value(w) ==
  IF w = <<>> THEN 0
  ELSE 2 * Value(SubSeq(w, 1, Len(w) - 1)) + (IF w[Len(w)] = One THEN 1 ELSE 0)

RECURSIVE Pow2(_)
Pow2(n) == IF n = 0 THEN 1 ELSE 2 * Pow2(n - 1)

RECURSIVE SumOver(_, _)
SumOver(keys, f) == IF keys = <<>> THEN 0 ELSE f[Head(keys)] + SumOver(Tail(keys), f)

\* The encoded length of text under codeword lengths lenOf: the sum over
\* the symbols of occurrence count times codeword length.
Cost(lenOf) ==
  SumOver(Ascending(DOMAIN lenOf), [c \in DOMAIN lenOf |-> Count(text, c) * lenOf[c]])

\* The Kraft inequality, sum of 2^-lenOf[c] <= 1, scaled by 2^MaxCodeLen.  By
\* the Kraft-McMillan theorem the functions that satisfy it are exactly the
\* codeword lengths of the prefix-free binary codes over DOMAIN lenOf.
Kraft(lenOf) ==
  SumOver(Ascending(DOMAIN lenOf), [c \in DOMAIN lenOf |-> Pow2(MaxCodeLen - lenOf[c])])
    <= Pow2(MaxCodeLen)

CodeLengths == [c \in DOMAIN encodings |-> Len(encodings[c])]

\* C1: for every non-empty text, decode(encode(text, T), T) with
\* T = createEncodingTable(text) returns exactly text.
C1_RoundTrip ==
  (/\ text # <<>>
   /\ msg = text
   /\ pc \in {"failed", "decoded"}
   /\ pc = "decoded" => bits = encodedText)
    => (pc = "decoded" /\ decodedText = text)

\* C2: in the table createEncodingTable returns, no codeword is a prefix of
\* the codeword of another symbol.
C2_PrefixFree ==
  pc = "table" =>
    \A a, b \in DOMAIN encodings :
      a # b => ~IsPrefix(encodings[a], encodings[b])

\* C2's case: a table of four symbols whose codewords differ in length.
C2_Witness ==
  /\ pc = "table"
  /\ Cardinality(DOMAIN encodings) = 4
  /\ \E a, b \in DOMAIN encodings : Len(encodings[a]) < Len(encodings[b])

\* C3: the table's codewords cover the symbols of the text, and the encoded
\* length under them is at most that under any prefix-free binary code over
\* the same symbols (with codewords of at most MaxCodeLen bits).
C3_Minimality ==
  pc = "table" =>
    /\ DOMAIN encodings = Symbols(text)
    /\ \A lenOf \in [DOMAIN encodings -> 0..MaxCodeLen] :
         Kraft(lenOf) => Cost(CodeLengths) <= Cost(lenOf)

\* C3's case: a table of three or more symbols in which a more frequent
\* symbol has the shorter codeword, so that the prefix-free code with the two
\* codewords exchanged is strictly longer.
C3_Witness ==
  /\ pc = "table"
  /\ Cardinality(DOMAIN encodings) >= 3
  /\ \E a, b \in DOMAIN encodings :
       LET swapped == [c \in DOMAIN encodings |->
                         IF c = a THEN CodeLengths[b]
                         ELSE IF c = b THEN CodeLengths[a] ELSE CodeLengths[c]]
       IN /\ Count(text, a) < Count(text, b)
          /\ CodeLengths[b] < CodeLengths[a]
          /\ Kraft(swapped)
          /\ Cost(CodeLengths) < Cost(swapped)

\* C4: for a text of one distinct symbol the tree is a single leaf, the
\* length recorded for the symbol is 1 and its codeword has exactly one bit.
C4_SingleSymbol ==
  (pc = "table" /\ Cardinality(Symbols(text)) = 1) =>
    /\ huffmanTree[1].left = <<>> /\ huffmanTree[1].right = <<>>
    /\ lengthsTable = <<<<1, text[1]>>>>
    /\ Len(encodings[text[1]]) = 1

\* C5: createEncodingTable on the empty text ends in an EmptyInput failure:
\* it neither returns a table nor reads an element of an empty collection.
C5_EmptyInput ==
  (text = <<>> /\ pc \in {"tree", "lengths", "table", "failed", "crashed"}) =>
    (pc = "failed" /\ error = "EmptyInput")

\* C6: decode of a bit input that ends with a non-empty accumulator (one
\* that matched no codeword) reports TruncatedStream instead of returning
\* what it decoded.
C6_TruncatedDecode ==
  (pc = "decoded" /\ Symbols(bits) \subseteq {Zero, One} /\ code # <<>>)
    => error = "TruncatedStream"

\* C7: encode returns no output for a text with a symbol that is not a key
\* of the table.
C7_UnknownSymbol ==
  pc \in {"encoded", "decoded"} => Symbols(msg) \subseteq DOMAIN encodings

\* C8: the table of lengths is in ascending order of length and then of
\* symbol, and of two symbols with codewords of equal length the smaller
\* has the numerically smaller codeword.
C8_CanonicalOrder ==
  /\ pc \in {"lengths", "table"} =>
       \A i, j \in 1..Len(lengthsTable) :
         i < j => \/ lengthsTable[i][1] < lengthsTable[j][1]
                  \/ /\ lengthsTable[i][1] = lengthsTable[j][1]
                     /\ lengthsTable[i][2] < lengthsTable[j][2]
  /\ pc = "table" =>
       \A a, b \in DOMAIN encodings :
         (a < b /\ Len(encodings[a]) = Len(encodings[b]))
           => Value(encodings[a]) < Value(encodings[b])

\* The earliest position of a node of least weight.
EarliestMinimum(list) ==
  Min({i \in 1..Len(list) : \A j \in 1..Len(list) : list[i].pair[2] <= list[j].pair[2]})

\* C9: each extractMinimum call of createHuffmanTree removes and returns the
\* node of least weight at the earliest position of the working list.
C9_TieBreak ==
  [][/\ ExtractLeft =>
          /\ left' = <<weights[EarliestMinimum(weights)]>>
          /\ weights' = RemoveAt(weights, EarliestMinimum(weights))
     /\ ExtractRight =>
          weights' = Append(RemoveAt(weights, EarliestMinimum(weights)),
                            Internal(left, <<weights[EarliestMinimum(weights)]>>))]_vars

\* C10: in encode(text, createEncodingTable(text)) every replaceSubstring
\* loop reaches pos = npos.
C10_EncodeTerminates ==
  [](((pc = "while") /\ msg = text) => <>(pos = npos))

====
